---- MODULE Spec2Model ----
(***************************************************************************)
(* The browser-side conversation / plan-selection / calendar-scheduling    *)
(* controller of the travel assistant.  The repository holds several      *)
(* versions of the controller script; a page runs exactly one of them:    *)
(*   "chat_js"   src/static/js/chat.js                                     *)
(*   "part_001"  src/unnamed/part_001, first script (lines 1-500)          *)
(*   "part_004"  src/unnamed/part_004                                      *)
(*   "part_002"  src/unnamed/part_002, the script (lines 1-666); its lines *)
(*               1-221 and 441-521 are those of chat.js                    *)
(*   "part_002_html"  src/unnamed/part_002, the page with its inline       *)
(*               script (lines 667-1190)                                   *)
(*   "part_001_text"  src/unnamed/part_001, second script (lines 501-629), *)
(*               which shows the response field of a chat response         *)
(*   "part_003"  src/unnamed/part_003 (lines 1-214): the second script of  *)
(*               part_001 with an offer to add the response to the        *)
(*               calendar                                                  *)
(*   "preferences_html"  src/templates/preferences.html, the preferences   *)
(*               page with its inline script                               *)
(* The state is the DOM the script owns, the requests in flight, the      *)
(* interval timers and session storage.  Every await of a handler is a    *)
(* point where other handlers may run, so a handler is one action per     *)
(* synchronous segment: the click/submit segment and one resumption per   *)
(* awaited response.                                                       *)
(***************************************************************************)
EXTENDS Integers, Sequences, FiniteSets, TLC

\* ---------------------------------------------------------------- bounds
MaxConv == 6        \* nodes the conversation may hold (incl. reserved room)
MaxTurns == 2       \* user messages (chat submissions and refinements) per page
MaxInFlight == 2    \* requests outstanding at the same time
MaxAlts == 2        \* alternatives in one /api/chat response
MaxSessions == 2    \* page sessions: the first load and the reloads

\* ------------------------------------------------------- program constants
SuccessCooldown == 5
RateLimitCooldown == 30

Versions == {"chat_js", "part_001", "part_004", "part_002", "part_002_html", "part_001_text",
             "part_003", "preferences_html"}
\* the versions whose option, dialog and chat form code is that of chat.js
ChatJsVersions == {"chat_js", "part_002"}
Texts == {"q1"}                 \* what the user types in the message box
Inputs == Texts \cup {"", " "}  \* values of messageInput
Changes == {"", "c1"}           \* what the user types in the changes textarea
Dates == {"d1", "d2"}           \* values the date input can take
NoDate == ""

VARIABLES
  version,       \* which script the page runs
  location,      \* "app": the page is shown; "auth": redirected to /api/calendar/auth
  userId,        \* the user id the script generated when the page was loaded
  messageInput,  \* messageInput.value
  chatMessages,  \* children of #chatMessages, in document order
  sets,          \* the rendered sets of alternatives: sets[s][k] is a .response-option
  submitButton,  \* the chat form's submit button
  intervals,     \* running setInterval timers of disableSubmit
  net,           \* fetch requests in flight
  modal,         \* the scheduling dialog
  pending,       \* sessionStorage['pendingCalendarItinerary']
  loadPc,        \* position of the window load handler
  loadPosts      \* POST /api/calendar/event issued by the load handler of this load

vars == <<version, location, userId, messageInput, chatMessages, sets,
          submitButton, intervals, net, modal, pending, loadPc, loadPosts>>

\* ---------------------------------------------------------------- helpers
Last(s) == s[Len(s)]

RemoveAt(s, i) == SubSeq(s, 1, i - 1) \o SubSeq(s, i + 1, Len(s))

\* String.prototype.trim on the values the message box can hold
trim(s) == IF s = " " THEN "" ELSE s

\* ----------------------------------------------------------- DOM: messages
\* A child of #chatMessages: class (t), text and, for a loading indicator,
\* the request it belongs to, for an options block, the set it shows.
Node(t, txt, ref) == [t |-> t, txt |-> txt, ref |-> ref]

NoRef == 0

\* showLoading(): appends a .loading-message for request id
showLoading(cm, id) == Append(cm, Node("loading", <<>>, id))

\* loadingMessage.remove(): removes the indicator; a no-op when detached
RemoveLoading(cm, id) ==
  LET idx == {i \in DOMAIN cm : cm[i].t = "loading" /\ cm[i].ref = id}
  IN IF idx = {} THEN cm ELSE RemoveAt(cm, CHOOSE i \in idx : TRUE)

\* an addMessage that ignores its isError argument
addMessageText_noError(cm, txt, isUser, isError) ==
  Append(cm, Node(IF isUser THEN "user" ELSE "system", txt, NoRef))

\* addMessage(content) for a string content
addMessageText(cm, txt, isUser, isError) ==
  Append(cm, Node(IF isUser THEN "user" ELSE IF isError THEN "error" ELSE "system",
                  txt, NoRef))

\* ------------------------------------------------------------ DOM: options
SelectLabel == "Select this option"

\* An alternative of a response: its content and whether markup rendering
\* of it throws; type 'itinerary' or not.
Alternative(k, bad, itin) ==
  [content |-> IF k = 1 THEN "p1" ELSE IF k = 2 THEN "p2" ELSE "p3",
   throws |-> bad, itinerary |-> itin]

\* createResponseOption(optionData): the option element with its select
\* button; chat_js adds a calendar button to an itinerary.
createResponseOption(optionData) ==
  [content |-> optionData.content,
   shown |-> IF optionData.throws THEN "raw" ELSE "markup",
   visible |-> TRUE,
   btnDisabled |-> FALSE,
   btnLabel |-> SelectLabel,
   calButton |-> IF version \in ChatJsVersions /\ optionData.itinerary THEN "enabled" ELSE "none",
   controls |-> 0,
   confirmButtons |-> <<>>,
   query |-> <<>>,
   chosen |-> FALSE]

\* a forEach that stops one alternative short
RenderAlternatives_short(alts) ==
  [i \in 1..(Len(alts) - 1) |-> createResponseOption(alts[i])]

\* the forEach of addMessage over content.alternatives
RECURSIVE RenderAlternatives(_)
RenderAlternatives(alts) ==
  IF alts = <<>> THEN <<>>
  ELSE <<createResponseOption(Head(alts))>> \o RenderAlternatives(Tail(alts))

\* addMessage(data) for a response object: the options block when
\* data.alternatives is present, the 'Unexpected response format' text otherwise.
\* Returns the new conversation and the new sets.
addMessageData(cm, st, hasAlternatives, alts) ==
  IF hasAlternatives
  THEN [cm |-> Append(cm, Node("options", <<>>, Len(st) + 1)),
        sets |-> Append(st, RenderAlternatives(alts))]
  ELSE [cm |-> Append(cm, Node("system", <<"unexpected">>, NoRef)),
        sets |-> st]

\* querySelectorAll('.response-option').forEach(o => if (o !== optionDiv) hide)
HideOthers(st, s, k) ==
  [i \in DOMAIN st |->
     [j \in DOMAIN st[i] |->
        IF i = s /\ j = k THEN st[i][j] ELSE [st[i][j] EXCEPT !.visible = FALSE]]]

\* ---------------------------------------------------------------- requests
\* A fetch in flight: the endpoint and handler it belongs to (kind), the message
\* or user_changes (txt), the original_query (q), the option it was issued for
\* (s, k), the itinerary content and start date, and whether the dialog whose
\* handler issued it is still the one on screen (live).
NoUserId == 0

\* the user_id of the JSON body of a request of this kind: the scripts put
\* their userId in the bodies for /api/chat, /api/chat/select,
\* /api/itinerary/save and /api/preferences; handleChatSubmission of the page
\* script of part_002 and the preferences page send none, and so do the
\* calendar calls
BodyUserId(kind) ==
  IF kind \in {"chat", "tchat", "select", "refine", "save", "bsave", "send"}
     \/ (kind = "prefs" /\ version # "preferences_html")
  THEN userId ELSE NoUserId

Request(id, kind, txt, q, s, k, content, date, live) ==
  [id |-> id, kind |-> kind, txt |-> txt, q |-> q, s |-> s, k |-> k,
   content |-> content, date |-> date, live |-> live, user_id |-> BodyUserId(kind)]

FreeIds == (1..MaxInFlight) \ {r.id : r \in net}
NewId == CHOOSE i \in FreeIds : \A j \in FreeIds : i <= j

\* nodes a request in flight may still add to the conversation
Reserve(r) ==
  CASE r.kind = "tchat" /\ version = "part_003" -> 2
    [] r.kind \in {"chat", "tchat", "hchat", "refine", "save", "bsave", "bstatus", "send",
                   "prefs", "oevent"} -> 1
    [] r.kind = "select" -> 2
    [] r.kind \in {"calstatus", "cstatus", "cevent", "lstatus", "levent",
                   "hstatus", "hevent"} -> 1
    [] OTHER -> 0

RECURSIVE Reserved(_)
Reserved(rs) ==
  IF rs = {} THEN 0
  ELSE LET r == CHOOSE x \in rs : TRUE IN Reserve(r) + Reserved(rs \ {r})

\* room for k more nodes now or later
Room(k) == Len(chatMessages) + Reserved(net) + k <= MaxConv

CanFetch == FreeIds # {}

\* the user has turns left on this page
Turns == Cardinality({i \in DOMAIN chatMessages : chatMessages[i].t = "user"})
CanTurn == Turns < MaxTurns /\ CanFetch /\ Room(2)

\* ------------------------------------------------------ responses of the server
\* A fetch of /api/chat ends in a rejection, or in a response with an HTTP
\* status and a body: not JSON, JSON with status other than 'success', or a
\* success carrying plain text or n alternatives.
ChatResponses ==
  {[http |-> 0, body |-> "reject", n |-> 0, bad |-> {}, itin |-> FALSE]}
  \cup {[http |-> h, body |-> b, n |-> 0, bad |-> {}, itin |-> FALSE] :
          h \in {200, 429, 500}, b \in {"nonjson", "fail"}}
  \cup {[http |-> 200, body |-> "text", n |-> 0, bad |-> {}, itin |-> itin] :
          itin \in BOOLEAN}
  \cup UNION {{[http |-> 200, body |-> "alts", n |-> n, bad |-> bad, itin |-> itin] :
                 bad \in SUBSET (1..n), itin \in BOOLEAN} : n \in 0..MaxAlts}

AlternativesOf(resp) ==
  [k \in 1..resp.n |-> Alternative(k, k \in resp.bad, resp.itin)]

\* --------------------------------------------------------------- cooldown
OriginalLabel == -1     \* the send icon; n >= 0 stands for `Wait ${n}s`

\* a cooldown that starts its countdown one second short
disableSubmit_short(btn, ivs, seconds) ==
  [btn |-> [btn EXCEPT !.disabled = TRUE],
   ivs |-> Append(ivs, [timeLeft |-> seconds - 1, originalText |-> btn.label])]

\* disableSubmit(seconds): disable the button, remember its label, start a timer
disableSubmit(btn, ivs, seconds) ==
  [btn |-> [btn EXCEPT !.disabled = TRUE],
   ivs |-> Append(ivs, [timeLeft |-> seconds, originalText |-> btn.label])]

\* one firing of the setInterval callback of timer i
RECURSIVE RunIntervals(_, _, _)
RunIntervals(btn, ivs, i) ==
  IF i > Len(ivs) THEN [btn |-> btn, ivs |-> ivs]
  ELSE LET t == ivs[i]
           left == t.timeLeft - 1
       IN IF left < 0
          THEN RunIntervals([disabled |-> FALSE, label |-> t.originalText],
                            RemoveAt(ivs, i), i)
          ELSE RunIntervals([btn EXCEPT !.label = t.timeLeft],
                            [ivs EXCEPT ![i].timeLeft = left], i + 1)

\* handleError(error, loadingMessage)
handleError(cm, btn, ivs, status, id) ==
  IF status = 429
  THEN [cm |-> addMessageText(RemoveLoading(cm, id), <<"rate">>, FALSE, TRUE),
        t |-> disableSubmit(btn, ivs, RateLimitCooldown)]
  ELSE [cm |-> addMessageText(RemoveLoading(cm, id), <<"generic">>, FALSE, TRUE),
        t |-> [btn |-> btn, ivs |-> ivs]]

\* ------------------------------------------------------------------- modal
ClosedModal ==
  [open |-> FALSE, itinerary |-> "", date |-> NoDate, events |-> <<>>,
   btnDisabled |-> FALSE, btnLabel |-> "", beneath |-> <<>>]

NoPending == [itinerary |-> "", startDate |-> NoDate]

\* ------------------------------------------------------------------- Init
Init ==
  /\ version \in Versions
  /\ location = "app"
  /\ userId = 1
  /\ messageInput = ""
  /\ chatMessages = <<>>
  /\ sets = <<>>
  /\ submitButton = [disabled |-> FALSE, label |-> OriginalLabel]
  /\ intervals = <<>>
  /\ net = {}
  /\ modal = ClosedModal
  /\ pending = NoPending
  /\ loadPc = "none"
  /\ loadPosts = 0

calVars == <<modal, pending, loadPc, loadPosts>>
pageVars == <<version, location, userId>>

\* a page control can be used: the page is shown and no dialog covers it
PageInteractive == location = "app" /\ ~modal.open

\* ------------------------------------------------------------ chat form
\* the preferences page has the preferences form only
HasChatForm == version # "preferences_html"

\* the user edits the message box
TypeMessage(v) ==
  /\ HasChatForm
  /\ PageInteractive
  /\ v # messageInput
  /\ messageInput' = v
  /\ UNCHANGED <<pageVars, chatMessages, sets, submitButton, intervals, net, calVars>>

\* the scripts that show the response as plain text: the second script of
\* part_001, and part_003, which adds the calendar offer to it
TextVersions == {"part_001_text", "part_003"}

\* the handler a /api/chat request of the chat form resumes in: the page script
\* of part_002 and the second script of part_001 have their own
ChatKind ==
  CASE version = "part_002_html" -> "hchat"
    [] version \in TextVersions -> "tchat"
    [] OTHER -> "chat"

\* a submit handler that goes on with any message
ReturnsEarly_never(message) == FALSE

\* if (!message) return
ReturnsEarly(message) == message = ""

\* chatForm submit handler up to the await of fetch('/api/chat').  A disabled
\* submit button blocks the form's submission; an empty message returns at once.
ChatSubmit ==
  /\ HasChatForm
  /\ PageInteractive
  /\ ~submitButton.disabled
  /\ IF ReturnsEarly(trim(messageInput))
     THEN UNCHANGED vars
     ELSE /\ CanTurn
          /\ version = "part_003" => Room(3)
          /\ LET message == trim(messageInput)
                 id == NewId
             IN /\ chatMessages' = showLoading(addMessageText(chatMessages, <<message>>, TRUE, FALSE), id)
                /\ net' = net \cup {Request(id, ChatKind, <<message>>, <<>>, 0, 0, "", NoDate, TRUE)}
          /\ messageInput' = ""
          /\ UNCHANGED <<pageVars, sets, submitButton, intervals, calVars>>

\* the rest of the chatForm submit handler of chat_js, lines 399-415
ChatResume_chat_js(r, resp) ==
  IF resp.body \in {"reject", "nonjson"}
  THEN \* fetch or response.json() threw: catch -> handleError(error): error.status is undefined
       LET h == handleError(chatMessages, submitButton, intervals, 0, r.id)
       IN /\ chatMessages' = h.cm
          /\ submitButton' = h.t.btn /\ intervals' = h.t.ivs
          /\ sets' = sets
  ELSE IF resp.body \in {"text", "alts"}
  THEN LET a == addMessageData(RemoveLoading(chatMessages, r.id), sets,
                               resp.body = "alts", AlternativesOf(resp))
           t == disableSubmit(submitButton, intervals, SuccessCooldown)
       IN /\ chatMessages' = a.cm /\ sets' = a.sets
          /\ submitButton' = t.btn /\ intervals' = t.ivs
  ELSE LET h == handleError(RemoveLoading(chatMessages, r.id), submitButton, intervals,
                            resp.http, r.id)
       IN /\ chatMessages' = h.cm
          /\ submitButton' = h.t.btn /\ intervals' = h.t.ivs
          /\ sets' = sets

\* the rest of the chatForm submit handler of part_001, lines 430-452: a
\* response that is not ok or not JSON throws
ChatResume_part_001(r, resp, prefix) ==
  /\ UNCHANGED <<submitButton, intervals>>
  /\ IF resp.body = "reject" \/ resp.http # 200 \/ resp.body = "nonjson"
     THEN /\ chatMessages' = addMessageText(RemoveLoading(chatMessages, r.id),
                                            <<prefix, "thrown">>, FALSE, TRUE)
          /\ sets' = sets
     ELSE IF resp.body \in {"text", "alts"}
     THEN LET a == addMessageData(RemoveLoading(chatMessages, r.id), sets,
                                  resp.body = "alts", AlternativesOf(resp))
          IN chatMessages' = a.cm /\ sets' = a.sets
     ELSE /\ chatMessages' = addMessageText(RemoveLoading(chatMessages, r.id),
                                            <<prefix, "message">>, FALSE, TRUE)
          /\ sets' = sets

\* the rest of the chatForm submit handler of part_004, lines 448-459
ChatResume_part_004(r, resp, prefix) ==
  /\ UNCHANGED <<submitButton, intervals>>
  /\ IF resp.body \in {"reject", "nonjson"}
     THEN /\ chatMessages' = addMessageText(RemoveLoading(chatMessages, r.id),
                                            <<"Error", "thrown">>, FALSE, TRUE)
          /\ sets' = sets
     ELSE IF resp.body \in {"text", "alts"}
     THEN LET a == addMessageData(RemoveLoading(chatMessages, r.id), sets,
                                  resp.body = "alts", AlternativesOf(resp))
          IN chatMessages' = a.cm /\ sets' = a.sets
     ELSE /\ chatMessages' = addMessageText(RemoveLoading(chatMessages, r.id),
                                            <<prefix, "message">>, FALSE, TRUE)
          /\ sets' = sets

\* the /api/chat request of the chat form resolves or fails
ChatResume(r, resp) ==
  /\ location = "app"
  /\ r \in net /\ r.kind = "chat"
  /\ net' = net \ {r}
  /\ CASE version \in ChatJsVersions -> ChatResume_chat_js(r, resp)
       [] version = "part_001" -> ChatResume_part_001(r, resp, "Error")
       [] version = "part_004" -> ChatResume_part_004(r, resp, "Error")
  /\ UNCHANGED <<pageVars, messageInput, calVars>>

\* the message of part_003 that offers to add the itinerary to the calendar,
\* with its 'Add to Calendar' button
CalendarOffer == Node("system", <<"offer">>, NoRef)

\* the rest of the chatForm submit handler of the second script of part_001,
\* lines 575-595: addMessage(data.response) sets the text of a system message,
\* the empty text when the response has no response field.  part_003 appends
\* its calendar offer when the text holds 'itinerary' or 'schedule' (itin).
TextChatResume(r, resp) ==
  /\ location = "app"
  /\ r \in net /\ r.kind = "tchat"
  /\ net' = net \ {r}
  /\ IF resp.body \in {"reject", "nonjson"}
     THEN LET h == handleError(chatMessages, submitButton, intervals, 0, r.id)
          IN /\ chatMessages' = h.cm
             /\ submitButton' = h.t.btn /\ intervals' = h.t.ivs
     ELSE IF resp.body \in {"text", "alts"}
     THEN LET t == disableSubmit(submitButton, intervals, SuccessCooldown)
              cm == addMessageText(RemoveLoading(chatMessages, r.id),
                                   IF resp.body = "text" THEN <<"response">> ELSE <<>>,
                                   FALSE, FALSE)
          IN /\ chatMessages' =
                  IF version # "part_003" THEN cm
                  ELSE IF resp.body = "alts"
                       \* data.response.toLowerCase() throws: catch -> handleError
                  THEN addMessageText(cm, <<"generic">>, FALSE, TRUE)
                  ELSE IF resp.itin THEN Append(cm, CalendarOffer)
                  ELSE cm
             /\ submitButton' = t.btn /\ intervals' = t.ivs
     ELSE LET h == handleError(RemoveLoading(chatMessages, r.id), submitButton, intervals,
                               resp.http, r.id)
          IN /\ chatMessages' = h.cm
             /\ submitButton' = h.t.btn /\ intervals' = h.t.ivs
  /\ UNCHANGED <<pageVars, messageInput, sets, calVars>>

\* createPlanElement(plan, index) of the page script of part_002
createPlanElement(plan) ==
  [createResponseOption(plan) EXCEPT !.btnLabel = "Select This Plan"]

\* the alternatives displayNewPlans renders before marked.parse throws
RECURSIVE PlansRendered(_)
PlansRendered(alts) ==
  IF alts = <<>> \/ Head(alts).throws THEN <<>>
  ELSE <<createPlanElement(Head(alts))>> \o PlansRendered(Tail(alts))

\* chatMessages.removeChild(loadingDiv) throws when loadingDiv is no child
HasLoading(cm, id) == \E i \in DOMAIN cm : cm[i].t = "loading" /\ cm[i].ref = id

\* the rest of handleChatSubmission and of the submit handler of the page
\* script of part_002, lines 811-839 and 1074-1080.  The indicator is removed
\* after the fetch resolved only; displayNewPlans empties #chatMessages and
\* appends the plans; whatever throws ends in a .message.error.
TemplateChatResume(r, resp) ==
  /\ location = "app"
  /\ r \in net /\ r.kind = "hchat"
  /\ net' = net \ {r}
  /\ IF resp.body = "reject"
     THEN /\ chatMessages' = addMessageText(chatMessages, <<"Error", "thrown">>, FALSE, TRUE)
          /\ sets' = sets
     ELSE IF ~HasLoading(chatMessages, r.id)
             \/ resp.http # 200 \/ resp.body \in {"nonjson", "fail", "text"}
     THEN /\ chatMessages' = addMessageText(RemoveLoading(chatMessages, r.id),
                                            <<"Error", "thrown">>, FALSE, TRUE)
          /\ sets' = sets
     ELSE LET alts == AlternativesOf(resp)
              plans == PlansRendered(alts)
              shown == IF plans = <<>> THEN <<>> ELSE <<Node("options", <<>>, 1)>>
          IN /\ sets' = IF plans = <<>> THEN <<>> ELSE <<plans>>
             /\ chatMessages' = IF Len(plans) < Len(alts)
                                THEN addMessageText(shown, <<"Error", "thrown">>, FALSE, TRUE)
                                ELSE shown
  /\ UNCHANGED <<pageVars, messageInput, submitButton, intervals, calVars>>

\* add-to-calendar-btn click handler of part_003 and createCalendarEvent up
\* to its await: the event is posted at once
OfferClick ==
  /\ PageInteractive
  /\ version = "part_003"
  /\ \E i \in DOMAIN chatMessages : chatMessages[i] = CalendarOffer
  /\ CanFetch /\ Room(1)
  /\ net' = net \cup {Request(NewId, "oevent", <<>>, <<>>, 0, 0, "response", NoDate, TRUE)}
  /\ UNCHANGED <<pageVars, messageInput, chatMessages, sets, submitButton, intervals, calVars>>

\* createCalendarEvent of part_003 after the await
OfferEventResume(r, resp) ==
  /\ location = "app"
  /\ r \in net /\ r.kind = "oevent"
  /\ net' = net \ {r}
  /\ chatMessages' =
       IF resp = "success"
       THEN addMessageText(chatMessages, <<"added to calendar">>, FALSE, FALSE)
       ELSE addMessageText(chatMessages, <<"adding", resp>>, FALSE, TRUE)
  /\ UNCHANGED <<pageVars, messageInput, sets, submitButton, intervals, calVars>>

\* ------------------------------------------------------- preferences form
\* chat.js, part_002, part_004 and the second script of part_001 handle the
\* submit of the preferences form, and so does the preferences page
HasPreferencesForm ==
  version \in {"chat_js", "part_002", "part_004", "part_001_text", "part_003",
               "preferences_html"}

\* preferencesForm submit handler up to the await of fetch('/api/preferences')
PreferencesSubmit ==
  /\ PageInteractive
  /\ HasPreferencesForm
  /\ CanFetch /\ Room(1)
  /\ net' = net \cup {Request(NewId, "prefs", <<>>, <<>>, 0, 0, "", NoDate, TRUE)}
  /\ UNCHANGED <<pageVars, messageInput, chatMessages, sets, submitButton, intervals, calVars>>

\* preferencesForm submit handler after the await: the scripts append a
\* message, the preferences page shows an alert
PreferencesResume(r, resp) ==
  /\ location = "app"
  /\ r \in net /\ r.kind = "prefs"
  /\ net' = net \ {r}
  /\ chatMessages' =
       IF version = "preferences_html" THEN chatMessages
       ELSE IF resp = "success"
       THEN addMessageText(chatMessages, <<"preferences updated">>, FALSE, FALSE)
       ELSE addMessageText(chatMessages, <<"preferences", resp>>, FALSE, TRUE)
  /\ UNCHANGED <<pageVars, messageInput, sets, submitButton, intervals, calVars>>

\* one second passes: every running interval callback fires once
Tick ==
  /\ location = "app"
  /\ intervals # <<>>
  /\ LET t == RunIntervals(submitButton, intervals, 1)
     IN submitButton' = t.btn /\ intervals' = t.ivs
  /\ UNCHANGED <<pageVars, messageInput, chatMessages, sets, net, calVars>>

\* ------------------------------------------------------------ selection
Options == {<<s, k>> : s \in DOMAIN sets, k \in 1..MaxAlts}
IsOption(s, k) == s \in DOMAIN sets /\ k \in DOMAIN sets[s]

\* chatMessages.querySelector('.message.user:last-child')?.textContent
LastChildUserText(cm) ==
  IF cm # <<>> /\ Last(cm).t = "user" THEN Last(cm).txt ELSE <<>>

\* the text of the last .message.user, '(No query found)' when there is none
RECURSIVE LastUserQuery(_)
LastUserQuery(cm) ==
  IF cm = <<>> THEN <<"(No query found)">>
  ELSE IF Last(cm).t = "user" THEN Last(cm).txt
  ELSE LastUserQuery(SubSeq(cm, 1, Len(cm) - 1))

\* showRefineOrConfirmButtons / the controls appended by the part_004 click handler
AddControls(o) == [o EXCEPT !.controls = o.controls + 1]

\* /api/chat/select ends in a thrown error (rejection or a body that is not
\* JSON), a status other than 'success', or a success without a
\* preference_analysis, with one that parses, or with one that does not
SelectResponses == {"throw", "fail", "success", "analysis", "badanalysis"}

ConfirmPlanLabel == "Confirm Plan"

\* the confirm button the click handler of part_002 appends to the option,
\* lines 235-239
\* with the queryMessage its click handler closes over
NewConfirmButton(queryMessage) ==
  [disabled |-> FALSE, label |-> ConfirmPlanLabel, query |-> queryMessage]

\* selectButton click handler up to its first await (chat_js, part_002) or
\* whole (part_001, part_004, which issue no request)
SelectClick(s, k) ==
  /\ PageInteractive
  /\ version \in {"chat_js", "part_001", "part_004", "part_002"}
  /\ IsOption(s, k)
  /\ sets[s][k].visible /\ ~sets[s][k].btnDisabled
  /\ CASE version = "chat_js" ->
            /\ CanFetch /\ Room(2)
            /\ sets' = [sets EXCEPT ![s][k].btnDisabled = TRUE, ![s][k].btnLabel = "Selecting..."]
            /\ net' = net \cup {Request(NewId, "select", <<>>, <<trim(messageInput)>>, s, k,
                                        sets[s][k].content, NoDate, TRUE)}
       [] version = "part_002" ->
            /\ CanFetch /\ Room(2)
            /\ sets' = [HideOthers(sets, s, k) EXCEPT
                          ![s][k] = [AddControls(@) EXCEPT
                                       !.btnDisabled = TRUE,
                                       !.btnLabel = "Processing...",
                                       !.confirmButtons = Append(@, NewConfirmButton(LastChildUserText(chatMessages))),
                                       !.query = LastChildUserText(chatMessages)]]
            /\ net' = net \cup {Request(NewId, "select", <<>>, LastChildUserText(chatMessages),
                                        s, k, sets[s][k].content, NoDate, TRUE)}
       [] version = "part_001" ->
            /\ sets' = [HideOthers(sets, s, k) EXCEPT
                          ![s][k] = [AddControls(@) EXCEPT !.btnDisabled = TRUE,
                                                            !.btnLabel = "Selected",
                                                            !.chosen = TRUE]]
            /\ net' = net
       [] version = "part_004" ->
            /\ sets' = [HideOthers(sets, s, k) EXCEPT
                          ![s][k] = [AddControls(@) EXCEPT !.btnDisabled = TRUE,
                                                            !.btnLabel = "Processing...",
                                                            !.query = LastChildUserText(chatMessages),
                                                            !.chosen = TRUE]]
            /\ net' = net
  /\ UNCHANGED <<pageVars, messageInput, chatMessages, submitButton, intervals, calVars>>

\* the selectButton click handler after the await: chat_js lines 244-300,
\* part_002 lines 312-405, which removes the other options, appends its
\* calendar and refine buttons to the option and reads no preference_analysis
SelectResume(r, resp) ==
  /\ location = "app"
  /\ version \in ChatJsVersions
  /\ r \in net /\ r.kind = "select"
  /\ net' = net \ {r}
  /\ IF resp \in {"throw", "fail"}
     THEN /\ sets' = [sets EXCEPT ![r.s][r.k].btnDisabled = FALSE,
                                  ![r.s][r.k].btnLabel = SelectLabel]
          /\ chatMessages' = addMessageText(chatMessages, <<"select">>, FALSE, TRUE)
     ELSE LET hidden == [HideOthers(sets, r.s, r.k) EXCEPT
                           ![r.s][r.k].btnDisabled = TRUE,
                           ![r.s][r.k].btnLabel = "Selected",
                           ![r.s][r.k].chosen = TRUE]
              banner == Append(chatMessages, Node("system", <<"confirmation">>, NoRef))
          IN CASE version = "part_002" ->
                    /\ sets' = [hidden EXCEPT ![r.s][r.k] = AddControls(@)]
                    /\ chatMessages' = chatMessages
               [] resp = "success" ->
                    sets' = hidden /\ chatMessages' = banner
               [] resp = "analysis" ->
                    /\ sets' = hidden
                    /\ chatMessages' = Append(banner, Node("system", <<"analysis">>, NoRef))
               [] resp = "badanalysis" ->
                    \* JSON.parse throws: the catch re-enables the button
                    /\ sets' = [hidden EXCEPT ![r.s][r.k].btnDisabled = FALSE,
                                              ![r.s][r.k].btnLabel = SelectLabel]
                    /\ chatMessages' = addMessageText(banner, <<"select">>, FALSE, TRUE)
  /\ UNCHANGED <<pageVars, messageInput, submitButton, intervals, calVars>>

\* ------------------------------------------------------------- refinement
RevisionMessage(changes, plan) == <<"Please revise", changes, plan>>

\* refine button click handler and refinePlan up to the await; empty change
\* text returns at once
RefineClick(s, k, changes) ==
  /\ PageInteractive
  /\ version \in {"part_001", "part_004"}
  /\ IsOption(s, k)
  /\ sets[s][k].visible /\ sets[s][k].controls > 0
  /\ changes # ""
  /\ CanTurn
  /\ LET refinementMessage == RevisionMessage(changes, sets[s][k].content)
         shownText == IF version = "part_001" THEN refinementMessage ELSE <<changes>>
         id == NewId
     IN /\ chatMessages' = showLoading(addMessageText(chatMessages, shownText, TRUE, FALSE), id)
        /\ net' = net \cup {Request(id, "refine", refinementMessage, <<>>, s, k,
                                    sets[s][k].content, NoDate, TRUE)}
  /\ UNCHANGED <<pageVars, messageInput, sets, submitButton, intervals, calVars>>

\* refinePlan after the await
RefineResume(r, resp) ==
  /\ location = "app"
  /\ r \in net /\ r.kind = "refine"
  /\ net' = net \ {r}
  /\ CASE version = "part_001" -> ChatResume_part_001(r, resp, "Error refining plan")
       [] version = "part_004" -> ChatResume_part_004(r, resp, "Error refining plan")
  /\ UNCHANGED <<pageVars, messageInput, calVars>>

\* ------------------------------------------------------ scheduling dialog
AddToCalendarLabel == "Add to Calendar"

ModalKinds == {"preview", "cstatus", "cevent", "hstatus", "hevent"}

\* the dialog on screen goes away: handlers in flight keep their detached elements
Detach(rs) == {IF r.kind \in ModalKinds THEN [r EXCEPT !.live = FALSE] ELSE r : r \in rs}

\* showScheduleModal: the dialog for an itinerary, with an empty date, an
\* empty events list and an enabled button; a dialog already in the document
\* is removed first.  beneath holds the dialogs left in the document under
\* the one on top.
OpenModal(content) ==
  [open |-> TRUE, itinerary |-> content, date |-> NoDate, events |-> <<>>,
   btnDisabled |-> FALSE, btnLabel |-> AddToCalendarLabel, beneath |-> <<>>]

\* createCalendarEventsFromItinerary(content) of chat_js: the new dialog is
\* appended to the body and shown; a dialog m already there stays where it is
createCalendarEventsFromItinerary(m, content) ==
  [OpenModal(content) EXCEPT
     !.beneath = IF m.open THEN Append(m.beneath, [m EXCEPT !.beneath = <<>>]) ELSE <<>>]

\* With a second dialog in the document the ids startDate and confirmSchedule
\* are no longer unique; the model follows the date input and the confirm
\* button of a dialog while it is the only one.
OnlyDialog == modal.beneath = <<>>

\* the hidden.bs.modal handler of the dialog on top: dialog.remove(); a dialog
\* beneath it is on top again
HideModal(m) ==
  IF m.beneath = <<>> THEN ClosedModal
  ELSE [Last(m.beneath) EXCEPT !.beneath = SubSeq(m.beneath, 1, Len(m.beneath) - 1)]

\* confirmBtn.disabled = false; confirmBtn.innerHTML = 'Add to Calendar' on the
\* button the handler holds, which is on screen only while its dialog is
ResetConfirmButton(m, r) ==
  IF r.live /\ m.open
  THEN [m EXCEPT !.btnDisabled = FALSE, !.btnLabel = AddToCalendarLabel]
  ELSE m

\* a thrown error, authenticated: true, authenticated: false
StatusResponses == {"throw", "yes", "no"}
\* a thrown error, a status other than 'success', success
ResultResponses == {"throw", "fail", "success"}

\* confirm button click handler and confirmPlan up to the await of
\* fetch('/api/itinerary/save')
ConfirmPlanClick(s, k, changes) ==
  /\ PageInteractive
  /\ version \in {"part_001", "part_004"}
  /\ IsOption(s, k)
  /\ sets[s][k].visible /\ sets[s][k].controls > 0
  /\ CanFetch /\ Room(1)
  /\ LET id == NewId
     IN IF version = "part_001"
        THEN /\ chatMessages' = showLoading(chatMessages, id)
             /\ net' = net \cup {Request(id, "save", <<changes>>, LastUserQuery(chatMessages),
                                         s, k, sets[s][k].content, NoDate, TRUE)}
        ELSE /\ chatMessages' = chatMessages
             /\ net' = net \cup {Request(id, "save", <<changes>>, sets[s][k].query,
                                         s, k, sets[s][k].content, NoDate, TRUE)}
  /\ UNCHANGED <<pageVars, messageInput, sets, submitButton, intervals, calVars>>

\* a confirmPlan that goes on to showScheduleModal whatever the save answered
SaveResume_alwaysSchedules(r, resp) ==
  /\ location = "app"
  /\ r \in net /\ r.kind = "save"
  /\ LET cm == IF version = "part_001" THEN RemoveLoading(chatMessages, r.id) ELSE chatMessages
     IN chatMessages' = IF resp = "success"
                        THEN IF version = "part_001"
                             THEN addMessageText(cm, <<"Plan saved">>, FALSE, FALSE)
                             ELSE cm
                        ELSE addMessageText(cm, <<"save", resp>>, FALSE, TRUE)
  /\ modal' = OpenModal(r.content)
  /\ net' = Detach(net \ {r})
  /\ UNCHANGED <<pageVars, messageInput, sets, submitButton, intervals,
                 pending, loadPc, loadPosts>>

\* confirmPlan after the await: on success the scheduling dialog replaces any
\* dialog on screen
SaveResume(r, resp) ==
  /\ location = "app"
  /\ r \in net /\ r.kind = "save"
  /\ LET cm == IF version = "part_001" THEN RemoveLoading(chatMessages, r.id) ELSE chatMessages
     IN IF resp = "success"
        THEN /\ chatMessages' = IF version = "part_001"
                                THEN addMessageText(cm, <<"Plan saved">>, FALSE, FALSE)
                                ELSE cm
             /\ modal' = OpenModal(r.content)
             /\ net' = Detach(net \ {r})
        ELSE /\ chatMessages' = addMessageText(cm, <<"save", resp>>, FALSE, TRUE)
             /\ modal' = modal
             /\ net' = net \ {r}
  /\ UNCHANGED <<pageVars, messageInput, sets, submitButton, intervals,
                 pending, loadPc, loadPosts>>

\* calendarButton click handler of chat_js up to the await of the status check
CalendarClick(s, k) ==
  /\ PageInteractive
  /\ version \in ChatJsVersions
  /\ IsOption(s, k)
  /\ sets[s][k].visible /\ sets[s][k].calButton = "enabled"
  /\ CanFetch /\ Room(1)
  /\ sets' = [sets EXCEPT ![s][k].calButton = "disabled"]
  /\ net' = net \cup {Request(NewId, "calstatus", <<>>, <<>>, s, k, sets[s][k].content,
                              NoDate, TRUE)}
  /\ UNCHANGED <<pageVars, messageInput, chatMessages, submitButton, intervals, calVars>>

\* calendarButton click handler of chat_js after the await
CalendarResume(r, resp) ==
  /\ location = "app"
  /\ r \in net /\ r.kind = "calstatus"
  /\ CASE resp = "throw" ->
            /\ chatMessages' = addMessageText(chatMessages, <<"connect">>, FALSE, TRUE)
            /\ sets' = [sets EXCEPT ![r.s][r.k].calButton = "enabled"]
            /\ net' = net \ {r}
            /\ UNCHANGED <<location, modal>>
       [] resp = "no" ->
            /\ location' = "auth"
            /\ net' = net \ {r}
            /\ UNCHANGED <<chatMessages, sets, modal>>
       [] resp = "yes" ->
            /\ modal' = createCalendarEventsFromItinerary(modal, r.content)
            /\ net' = Detach(net \ {r})
            /\ UNCHANGED <<location, chatMessages, sets>>
  /\ UNCHANGED <<version, userId, messageInput, submitButton, intervals, pending, loadPc, loadPosts>>

\* ------------------------------------------- confirm button of part_002
\* confirmButton click handler of part_002 up to the await of
\* fetch('/api/itinerary/save'), lines 259-277: button b of the option is
\* disabled and relabelled; the request remembers the button of its handler
ConfirmButtonClick(s, k, b, changes) ==
  /\ PageInteractive
  /\ version = "part_002"
  /\ IsOption(s, k)
  /\ sets[s][k].visible
  /\ b \in DOMAIN sets[s][k].confirmButtons
  /\ ~sets[s][k].confirmButtons[b].disabled
  /\ CanFetch /\ Room(1)
  /\ sets' = [sets EXCEPT ![s][k].confirmButtons[b].disabled = TRUE,
                           ![s][k].confirmButtons[b].label = "Saving..."]
  /\ net' = net \cup {[button |-> b] @@
                       Request(NewId, "bsave", <<changes>>, sets[s][k].confirmButtons[b].query,
                               s, k, sets[s][k].content, NoDate, TRUE)}
  /\ UNCHANGED <<pageVars, messageInput, chatMessages, submitButton, intervals, calVars>>

\* the handler after the await of the save, lines 279-298: on success it
\* checks the calendar status; the button is left as the click set it
ConfirmButtonSaveResume(r, resp) ==
  /\ location = "app"
  /\ r \in net /\ r.kind = "bsave"
  /\ IF resp = "success"
     THEN /\ net' = (net \ {r}) \cup {[r EXCEPT !.kind = "bstatus", !.user_id = NoUserId]}
          /\ chatMessages' = chatMessages
     ELSE /\ net' = net \ {r}
          /\ chatMessages' = addMessageText(chatMessages, <<"save", resp>>, FALSE, TRUE)
  /\ UNCHANGED <<pageVars, messageInput, sets, submitButton, intervals, calVars>>

\* the handler after the await of the status check, lines 282-291
ConfirmButtonStatusResume(r, resp) ==
  /\ r \in net /\ r.kind = "bstatus"
  /\ location = "app"
  /\ CASE resp = "throw" ->
            /\ chatMessages' = addMessageText(chatMessages, <<"save", "throw">>, FALSE, TRUE)
            /\ net' = net \ {r}
            /\ UNCHANGED <<location, modal>>
       [] resp = "no" ->
            /\ location' = "auth"
            /\ net' = net \ {r}
            /\ UNCHANGED <<chatMessages, modal>>
       [] resp = "yes" ->
            /\ modal' = createCalendarEventsFromItinerary(modal, r.content)
            /\ net' = Detach(net \ {r})
            /\ UNCHANGED <<location, chatMessages>>
  /\ UNCHANGED <<version, userId, messageInput, sets, submitButton, intervals, pending, loadPc, loadPosts>>

\* ---------------------------------------------- refine button of part_002
\* what the user answers to prompt(): nothing, a change, the word confirm
PromptTexts == {"", "c1", "confirm"}

\* opt.remove() on every .response-option of the document
RemoveOptions(st) ==
  [i \in DOMAIN st |-> [j \in DOMAIN st[i] |-> [st[i][j] EXCEPT !.visible = FALSE]]]

\* refineButton click handler of part_002 (lines 384-391) and sendMessage
\* (lines 635-665) up to its await: the flag awaitingRefinement is set just
\* before, so every text but 'confirm' is shown a second time, the options are
\* removed and no request is issued; 'confirm' is posted to /api/chat.  The
\* button exists once the selection has succeeded.
RefineButtonClick(s, k, refinement) ==
  /\ PageInteractive
  /\ version = "part_002"
  /\ IsOption(s, k)
  /\ sets[s][k].visible /\ sets[s][k].chosen
  /\ refinement # ""
  /\ Turns < MaxTurns
  /\ IF refinement = "confirm"
     THEN /\ CanFetch /\ Room(2)
          /\ chatMessages' = addMessageText(chatMessages, <<refinement>>, TRUE, FALSE)
          /\ sets' = sets
          /\ net' = net \cup {Request(NewId, "send", <<refinement>>, <<>>, s, k,
                                      sets[s][k].content, NoDate, TRUE)}
     ELSE /\ Room(2)
          /\ chatMessages' = addMessageText(addMessageText(chatMessages, <<refinement>>, TRUE, FALSE),
                                            <<refinement>>, TRUE, FALSE)
          /\ sets' = RemoveOptions(sets)
          /\ net' = net
  /\ UNCHANGED <<pageVars, messageInput, submitButton, intervals, calVars>>

\* sendMessage after the await, lines 658-664: addMessage(data) whatever the
\* status of the response
SendResume(r, resp) ==
  /\ location = "app"
  /\ r \in net /\ r.kind = "send"
  /\ net' = net \ {r}
  /\ IF resp.body \in {"reject", "nonjson"}
     THEN /\ chatMessages' = addMessageText(chatMessages, <<"send", "thrown">>, FALSE, TRUE)
          /\ sets' = sets
     ELSE LET a == addMessageData(chatMessages, sets, resp.body = "alts", AlternativesOf(resp))
          IN chatMessages' = a.cm /\ sets' = a.sets
  /\ UNCHANGED <<pageVars, messageInput, submitButton, intervals, calVars>>

\* the dialog is dismissed (Cancel, the close button, Escape): hidden.bs.modal
\* removes it
CloseModal ==
  /\ location = "app"
  /\ modal.open
  /\ modal' = HideModal(modal)
  /\ net' = Detach(net)
  /\ UNCHANGED <<pageVars, messageInput, chatMessages, sets, submitButton, intervals,
                 pending, loadPc, loadPosts>>

\* ----------------------------------------------------------- events preview
MaxEvents == 2

\* an event of a preview: its day_number and its position, for the start date
\* the preview was asked for
PreviewEvent(day, n, date) == [day |-> day, n |-> n, date |-> date]

\* the previews the server may return for a start date: events in day order
Previews(date) ==
  UNION {{[i \in 1..len |-> PreviewEvent(days[i], i, date)] :
            days \in {d \in [1..len -> 1..MaxEvents] :
                        \A i \in 1..len : (i = 1 => d[i] = 1)
                                          /\ (i > 1 => d[i] \in {d[i-1], d[i-1] + 1})}} :
         len \in 0..MaxEvents}

PreviewsByDate == [date \in Dates |-> Previews(date)]

\* /api/calendar/preview for a start date ends in a thrown error, a status
\* other than 'success', or a preview for that date
PreviewResponses(date) ==
  {[status |-> st, preview |-> <<>>] : st \in {"throw", "fail"}}
  \cup {[status |-> "success", preview |-> p] : p \in PreviewsByDate[date]}

DayHeader(evt) == [kind |-> "day", day |-> evt.day, n |-> 0, date |-> evt.date]
EventCard(evt) == [kind |-> "card", day |-> evt.day, n |-> evt.n, date |-> evt.date]

\* updateEventsPreview of part_001, lines 363-400: the list is emptied, then the
\* html of each day is appended when the next day starts and after the loop
RECURSIVE PreviewLoop_part_001(_, _, _, _)
PreviewLoop_part_001(preview, currentDay, dayHtml, list) ==
  IF preview = <<>>
  THEN IF dayHtml # <<>> THEN list \o dayHtml ELSE list
  ELSE LET evt == Head(preview)
           newDay == evt.day # currentDay
           flushed == IF newDay /\ dayHtml # <<>> THEN list \o dayHtml ELSE list
           started == IF newDay THEN <<DayHeader(evt)>> ELSE dayHtml
       IN PreviewLoop_part_001(Tail(preview), evt.day, Append(started, EventCard(evt)), flushed)

\* updateEventsPreview of part_004, lines 294-329: one html string, assigned
\* after the loop
RECURSIVE PreviewLoop_part_004(_, _, _)
PreviewLoop_part_004(preview, currentDayNumber, eventsHtml) ==
  IF preview = <<>> THEN eventsHtml
  ELSE LET evt == Head(preview)
           withHeader == IF currentDayNumber # evt.day
                         THEN Append(eventsHtml, DayHeader(evt)) ELSE eventsHtml
       IN PreviewLoop_part_004(Tail(preview), evt.day, Append(withHeader, EventCard(evt)))

\* the startDate change handler of chat_js, lines 90-103: one card per event
PreviewMap_chat_js(preview) == [i \in DOMAIN preview |-> EventCard(preview[i])]

\* a rendering that does not empty the list first
updateEventsPreview_append(eventsList, preview) ==
  eventsList \o (CASE version = "part_001" -> PreviewLoop_part_001(preview, -1, <<>>, <<>>)
                   [] version = "part_004" -> PreviewLoop_part_004(preview, 0, <<>>)
                   [] version \in ChatJsVersions -> PreviewMap_chat_js(preview))

\* a rendering of the event cards alone, without day headers
updateEventsPreview_flat(eventsList, preview) == PreviewMap_chat_js(preview)

\* the events list after a successful preview response is rendered into it
updateEventsPreview(eventsList, preview) ==
  CASE version = "part_001" -> PreviewLoop_part_001(preview, -1, <<>>, <<>>)
    [] version = "part_004" -> PreviewLoop_part_004(preview, 0, <<>>)
    [] version \in ChatJsVersions -> PreviewMap_chat_js(preview)

\* the startDate change handler up to the await of fetch('/api/calendar/preview')
DateChange(d) ==
  /\ location = "app"
  /\ modal.open /\ OnlyDialog
  /\ d # modal.date
  /\ CanFetch
  /\ modal' = [modal EXCEPT !.date = d]
  /\ net' = net \cup {Request(NewId, "preview", <<>>, <<>>, 0, 0, modal.itinerary, d, TRUE)}
  /\ UNCHANGED <<pageVars, messageInput, chatMessages, sets, submitButton, intervals,
                 pending, loadPc, loadPosts>>

\* the dialog the handler of request r renders into: part_001 and part_004 look
\* up '#scheduleModal .events-list' in the document, chat_js keeps its dialog
PreviewTargetOnScreen(r) ==
  modal.open /\ (version \in ChatJsVersions => r.live)

\* updateEventsPreview / the change handler after the await
PreviewResume(r, resp) ==
  /\ location = "app"
  /\ r \in net /\ r.kind = "preview"
  /\ net' = net \ {r}
  /\ modal' = IF resp.status = "success" /\ PreviewTargetOnScreen(r)
              THEN [modal EXCEPT !.events = updateEventsPreview(modal.events, resp.preview)]
              ELSE modal
  /\ UNCHANGED <<pageVars, messageInput, chatMessages, sets, submitButton, intervals,
                 pending, loadPc, loadPosts>>

\* -------------------------------------------------------- schedule confirm
\* a payload stored with its two values exchanged
StorePending_swapped(itinerary, startDate) == [itinerary |-> startDate, startDate |-> itinerary]

\* a payload stored without its start date
StorePending_noDate(itinerary, startDate) == [itinerary |-> itinerary, startDate |-> NoDate]

\* sessionStorage.setItem('pendingCalendarItinerary', {itinerary, startDate})
StorePending(itinerary, startDate) == [itinerary |-> itinerary, startDate |-> startDate]

\* confirmSchedule click handler up to its first await; without a start date
\* it alerts and returns.  part_001 and part_004 check the calendar status
\* first, chat_js posts the event at once.
ConfirmScheduleClick ==
  /\ location = "app"
  /\ modal.open /\ OnlyDialog /\ ~modal.btnDisabled
  /\ modal.date # NoDate
  /\ CanFetch /\ Room(1)
  /\ modal' = [modal EXCEPT !.btnDisabled = TRUE,
                            !.btnLabel = IF version = "part_001" THEN "Adding..."
                                         ELSE "Adding to Calendar..."]
  /\ net' = net \cup {Request(NewId, IF version \in ChatJsVersions THEN "cevent" ELSE "cstatus",
                              <<>>, <<>>, 0, 0, modal.itinerary, modal.date, TRUE)}
  /\ UNCHANGED <<pageVars, messageInput, chatMessages, sets, submitButton, intervals,
                 pending, loadPc, loadPosts>>

\* the catch block of the confirm handler: part_001 holds the button in a
\* variable of the enclosing function; part_004 and chat_js declare confirmBtn
\* inside the try block, so the catch block throws before it resets the button
CatchResetsButton == version = "part_001"

\* confirmSchedule click handler after the await of the status check
ConfirmStatusResume(r, resp) ==
  /\ location = "app"
  /\ r \in net /\ r.kind = "cstatus"
  /\ CASE resp = "throw" ->
            /\ chatMessages' = addMessageText(chatMessages, <<"scheduling", "thrown">>, FALSE, TRUE)
            /\ modal' = IF CatchResetsButton THEN ResetConfirmButton(modal, r) ELSE modal
            /\ net' = net \ {r}
            /\ UNCHANGED <<location, pending>>
       [] resp = "no" ->
            /\ pending' = StorePending(r.content, r.date)
            /\ location' = "auth"
            /\ net' = net \ {r}
            /\ UNCHANGED <<chatMessages, modal>>
       [] resp = "yes" ->
            /\ net' = (net \ {r}) \cup {[r EXCEPT !.kind = "cevent"]}
            /\ UNCHANGED <<location, pending, chatMessages, modal>>
  /\ UNCHANGED <<version, userId, messageInput, sets, submitButton, intervals, loadPc, loadPosts>>

\* confirmSchedule click handler after the await of fetch('/api/calendar/event')
ConfirmEventResume(r, resp) ==
  /\ location = "app"
  /\ r \in net /\ r.kind = "cevent"
  /\ CASE resp = "success" ->
            /\ chatMessages' = addMessageText(chatMessages, <<"added to calendar">>, FALSE, FALSE)
            /\ modal' = IF r.live THEN HideModal(modal) ELSE modal
            /\ net' = IF r.live THEN Detach(net \ {r}) ELSE net \ {r}
       [] resp = "fail" ->
            /\ chatMessages' = addMessageText(chatMessages, <<"scheduling", "message">>, FALSE, TRUE)
            /\ modal' = ResetConfirmButton(modal, r)
            /\ net' = net \ {r}
       [] resp = "throw" ->
            /\ chatMessages' = addMessageText(chatMessages, <<"scheduling", "thrown">>, FALSE, TRUE)
            /\ modal' = IF CatchResetsButton THEN ResetConfirmButton(modal, r) ELSE modal
            /\ net' = net \ {r}
  /\ UNCHANGED <<pageVars, messageInput, sets, submitButton, intervals,
                 pending, loadPc, loadPosts>>

\* ------------------------------------------------------------- page load
HasLoadHandler == version \in {"part_001", "part_004"}

\* The page is loaded again: a reload, or the return from /api/calendar/auth.
\* The DOM, the timers and the requests of the old page are gone, session
\* storage stays.  The script runs again and generates its user id, a random
\* string of nine characters: the model gives each load the next number.  The window load handler runs up to its first await: a
\* stored payload is parsed and removed, and the status check is issued.
PageLoad ==
  /\ userId < MaxSessions
  /\ userId' = userId + 1
  /\ location' = "app"
  /\ messageInput' = ""
  /\ chatMessages' = <<>>
  /\ sets' = <<>>
  /\ submitButton' = [disabled |-> FALSE, label |-> OriginalLabel]
  /\ intervals' = <<>>
  /\ modal' = ClosedModal
  /\ loadPosts' = 0
  /\ IF HasLoadHandler /\ pending # NoPending
     THEN /\ pending' = NoPending
          /\ net' = {Request(1, "lstatus", <<>>, <<>>, 0, 0,
                             pending.itinerary, pending.startDate, FALSE)}
          /\ loadPc' = "status"
     ELSE /\ pending' = pending
          /\ net' = {}
          /\ loadPc' = "none"
  /\ UNCHANGED version

\* window load handler after the await of the status check.  part_001 posts
\* the event itself; part_004 calls handleScheduleConfirmation, which looks up
\* #confirmSchedule (null unless a dialog is on screen), disables it and checks
\* the status again.
LoadStatusResume(r, resp) ==
  /\ location = "app"
  /\ r \in net /\ r.kind = "lstatus"
  /\ CASE resp = "throw" ->
            /\ loadPc' = "rejected"
            /\ net' = net \ {r}
            /\ UNCHANGED <<chatMessages, modal, loadPosts>>
       [] resp = "no" ->
            /\ loadPc' = "unauthenticated"
            /\ net' = net \ {r}
            /\ UNCHANGED <<chatMessages, modal, loadPosts>>
       [] resp = "yes" /\ version = "part_001" ->
            /\ loadPc' = "posting"
            /\ loadPosts' = loadPosts + 1
            /\ net' = (net \ {r}) \cup {[r EXCEPT !.kind = "levent"]}
            /\ UNCHANGED <<chatMessages, modal>>
       [] resp = "yes" /\ version = "part_004" /\ ~modal.open ->
            \* confirmBtn is null: TypeError, caught; the catch block appends the
            \* message and throws on confirmBtn
            /\ loadPc' = "threw"
            /\ chatMessages' = addMessageText(chatMessages, <<"scheduling", "thrown">>, FALSE, TRUE)
            /\ net' = net \ {r}
            /\ UNCHANGED <<modal, loadPosts>>
       [] resp = "yes" /\ version = "part_004" /\ modal.open ->
            /\ loadPc' = "confirming"
            /\ modal' = [modal EXCEPT !.btnDisabled = TRUE, !.btnLabel = "Adding to Calendar..."]
            /\ net' = (net \ {r}) \cup {[r EXCEPT !.kind = "hstatus", !.live = TRUE]}
            /\ UNCHANGED <<chatMessages, loadPosts>>
  /\ UNCHANGED <<pageVars, messageInput, sets, submitButton, intervals, pending>>

\* window load handler of part_001 after the await of fetch('/api/calendar/event')
LoadEventResume(r, resp) ==
  /\ location = "app"
  /\ r \in net /\ r.kind = "levent"
  /\ net' = net \ {r}
  /\ loadPc' = "done"
  /\ chatMessages' = IF resp = "success"
                     THEN addMessageText(chatMessages, <<"added to calendar">>, FALSE, FALSE)
                     ELSE addMessageText(chatMessages, <<"adding", resp>>, FALSE, TRUE)
  /\ UNCHANGED <<pageVars, messageInput, sets, submitButton, intervals, modal,
                 pending, loadPosts>>

\* handleScheduleConfirmation of part_004 after the await of its status check
HandlerStatusResume(r, resp) ==
  /\ location = "app"
  /\ r \in net /\ r.kind = "hstatus"
  /\ CASE resp = "throw" ->
            /\ loadPc' = "threw"
            /\ chatMessages' = addMessageText(chatMessages, <<"scheduling", "thrown">>, FALSE, TRUE)
            /\ net' = net \ {r}
            /\ UNCHANGED <<location, pending, loadPosts>>
       [] resp = "no" ->
            /\ loadPc' = "redirected"
            /\ pending' = StorePending(r.content, r.date)
            /\ location' = "auth"
            /\ net' = net \ {r}
            /\ UNCHANGED <<chatMessages, loadPosts>>
       [] resp = "yes" ->
            /\ loadPc' = "posting"
            /\ loadPosts' = loadPosts + 1
            /\ net' = (net \ {r}) \cup {[r EXCEPT !.kind = "hevent"]}
            /\ UNCHANGED <<location, pending, chatMessages>>
  /\ UNCHANGED <<version, userId, messageInput, sets, submitButton, intervals, modal>>

\* handleScheduleConfirmation of part_004 after the await of
\* fetch('/api/calendar/event'); success leaves the dialog as it is
HandlerEventResume(r, resp) ==
  /\ location = "app"
  /\ r \in net /\ r.kind = "hevent"
  /\ net' = net \ {r}
  /\ CASE resp = "success" ->
            /\ loadPc' = "done"
            /\ chatMessages' = addMessageText(chatMessages, <<"added to calendar">>, FALSE, FALSE)
            /\ modal' = modal
       [] resp = "fail" ->
            /\ loadPc' = "done"
            /\ chatMessages' = addMessageText(chatMessages, <<"scheduling", "message">>, FALSE, TRUE)
            /\ modal' = ResetConfirmButton(modal, r)
       [] resp = "throw" ->
            /\ loadPc' = "threw"
            /\ chatMessages' = addMessageText(chatMessages, <<"scheduling", "thrown">>, FALSE, TRUE)
            /\ modal' = modal
  /\ UNCHANGED <<pageVars, messageInput, sets, submitButton, intervals, pending, loadPosts>>

\* the chat turn: the chat form, its request and the cooldown timers
NextChat ==
  \/ \E v \in Inputs : TypeMessage(v)
  \/ ChatSubmit
  \/ \E r \in net, resp \in ChatResponses : ChatResume(r, resp)
  \/ \E r \in net, resp \in ChatResponses : TextChatResume(r, resp)
  \/ \E r \in net, resp \in ChatResponses : TemplateChatResume(r, resp)
  \/ OfferClick
  \/ \E r \in net, resp \in ResultResponses : OfferEventResume(r, resp)
  \/ Tick

\* The plan selection: the server answers a chat or refine request with
\* alternatives that render, or the request fails at the network.
PlanResponses ==
  {resp \in ChatResponses :
     \/ resp.body = "reject"
     \/ resp.body = "alts" /\ resp.bad = {} /\ ~resp.itin}

NextPlan ==
  \/ \E v \in Texts : TypeMessage(v)
  \/ ChatSubmit
  \/ \E r \in net, resp \in PlanResponses : ChatResume(r, resp)
  \/ Tick
  \/ \E o \in Options : SelectClick(o[1], o[2])
  \/ \E r \in net, resp \in SelectResponses : SelectResume(r, resp)
  \/ \E o \in Options, c \in Changes : RefineClick(o[1], o[2], c)
  \/ \E r \in net, resp \in PlanResponses : RefineResume(r, resp)

\* Reaching the scheduling dialog: the user sends one message per page, the
\* server answers it with one alternative of type itinerary that renders, the
\* plan is confirmed without change text and the save succeeds.  In chat_js
\* the calendar button of the option opens the dialog, in part_001 and
\* part_004 the option is selected and the plan confirmed.
OneItinerary ==
  {resp \in ChatResponses : resp.body = "alts" /\ resp.n = 1 /\ resp.bad = {} /\ resp.itin}

NextToDialog ==
  \/ \E v \in Texts : TypeMessage(v)
  \/ ChatSubmit /\ Turns = 0
  \/ \E r \in net, resp \in OneItinerary : ChatResume(r, resp)
  \/ \E o \in Options : SelectClick(o[1], o[2]) /\ version \in {"part_001", "part_004"}
  \/ \E o \in Options : ConfirmPlanClick(o[1], o[2], "")
  \/ \E r \in net : SaveResume(r, "success")
  \/ \E o \in Options : CalendarClick(o[1], o[2])
  \/ \E r \in net, resp \in {"yes", "no"} : CalendarResume(r, resp)
  \/ CloseModal
  \/ \E d \in Dates : DateChange(d)

\* The events preview of the dialog.
NextPreview ==
  \/ NextToDialog
  \/ \E r \in {q \in net : q.kind = "preview"} :
       \E resp \in PreviewResponses(r.date) : PreviewResume(r, resp)

\* The schedule confirmation of the dialog; the preview requests of the date
\* changes fail.
NextConfirm ==
  \/ NextToDialog
  \/ \E r \in net : PreviewResume(r, [status |-> "fail", preview |-> <<>>])
  \/ ConfirmScheduleClick
  \/ \E r \in net, resp \in StatusResponses : ConfirmStatusResume(r, resp)
  \/ \E r \in net, resp \in ResultResponses : ConfirmEventResume(r, resp)

\* The schedule confirmation, the reload of the page and the window load handler.
NextCalendar ==
  \/ NextConfirm
  \/ PageLoad
  \/ \E r \in net, resp \in StatusResponses : LoadStatusResume(r, resp)
  \/ \E r \in net, resp \in ResultResponses : LoadEventResume(r, resp)
  \/ \E r \in net, resp \in StatusResponses : HandlerStatusResume(r, resp)
  \/ \E r \in net, resp \in ResultResponses : HandlerEventResume(r, resp)

\* Saving the confirmed plan: the user sends one message per page, the
\* server answers it with one itinerary, the plan is selected and confirmed,
\* and the save and the status checks end in any of their outcomes.  The
\* dialog is opened and dismissed, not used.
NextSave ==
  \/ \E v \in Texts : TypeMessage(v)
  \/ ChatSubmit /\ Turns = 0
  \/ \E r \in net, resp \in OneItinerary : ChatResume(r, resp)
  \/ \E o \in Options : SelectClick(o[1], o[2]) /\ version # "chat_js"
  \/ \E r \in net, resp \in {"fail", "success"} : SelectResume(r, resp)
  \/ \E o \in Options : ConfirmPlanClick(o[1], o[2], "")
  \/ \E r \in net, resp \in ResultResponses : SaveResume(r, resp)
  \/ \E o \in Options, b \in 1..MaxConv : ConfirmButtonClick(o[1], o[2], b, "")
  \/ \E r \in net, resp \in ResultResponses : ConfirmButtonSaveResume(r, resp)
  \/ \E r \in net, resp \in StatusResponses : ConfirmButtonStatusResume(r, resp)
  \/ \E o \in Options : CalendarClick(o[1], o[2])
  \/ \E r \in net, resp \in StatusResponses : CalendarResume(r, resp)
  \/ CloseModal

\* Refining the selected plan: the selection succeeds or fails, the user asks
\* for a change of the plan, the server answers as in the plan selection.
NextRefine ==
  \/ \E v \in Texts : TypeMessage(v)
  \/ ChatSubmit
  \/ \E r \in net, resp \in PlanResponses : ChatResume(r, resp)
  \/ \E o \in Options : SelectClick(o[1], o[2])
  \/ \E r \in net, resp \in {"fail", "success"} : SelectResume(r, resp)
  \/ \E o \in Options, c \in Changes : RefineClick(o[1], o[2], c)
  \/ \E r \in net, resp \in PlanResponses : RefineResume(r, resp)
  \/ \E o \in Options, c \in PromptTexts : RefineButtonClick(o[1], o[2], c)
  \/ \E r \in net, resp \in PlanResponses : SendResume(r, resp)

\* A page session and its requests to /api/chat, /api/chat/select,
\* /api/itinerary/save and /api/preferences: one message per page answered with
\* one itinerary, a selection, a confirmation whose save fails, the preferences
\* form, and the reload of the page.
NextSession ==
  \/ \E v \in Texts : TypeMessage(v)
  \/ ChatSubmit /\ Turns = 0
  \/ \E r \in net, resp \in OneItinerary : ChatResume(r, resp)
  \/ \E r \in net, resp \in OneItinerary : TextChatResume(r, resp)
  \/ \E r \in net, resp \in OneItinerary : TemplateChatResume(r, resp)
  \/ \E o \in Options : SelectClick(o[1], o[2])
  \/ \E r \in net, resp \in {"fail", "success"} : SelectResume(r, resp)
  \/ \E o \in Options : ConfirmPlanClick(o[1], o[2], "")
  \/ \E r \in net : SaveResume(r, "fail")
  \/ \E o \in Options, b \in 1..MaxConv : ConfirmButtonClick(o[1], o[2], b, "")
  \/ \E r \in net : ConfirmButtonSaveResume(r, "fail")
  \/ PreferencesSubmit
  \/ \E r \in net, resp \in ResultResponses : PreferencesResume(r, resp)
  \/ PageLoad

\* The return from /api/calendar/auth: the dialog is reached and a date
\* picked (the preview fails), the confirm handler checks the status and
\* stores its payload when unauthenticated, the page is loaded again and the
\* window load handler runs.
NextReturn ==
  \/ \E v \in Texts : TypeMessage(v)
  \/ ChatSubmit /\ Turns = 0
  \/ \E r \in net, resp \in OneItinerary : ChatResume(r, resp)
  \/ \E o \in Options : SelectClick(o[1], o[2]) /\ version \in {"part_001", "part_004"}
  \/ \E o \in Options : ConfirmPlanClick(o[1], o[2], "")
  \/ \E r \in net : SaveResume(r, "success")
  \/ \E d \in Dates : DateChange(d)
  \/ \E r \in net : PreviewResume(r, [status |-> "fail", preview |-> <<>>])
  \/ ConfirmScheduleClick
  \/ \E r \in net, resp \in {"yes", "no"} : ConfirmStatusResume(r, resp)
  \/ PageLoad
  \/ \E r \in net, resp \in StatusResponses : LoadStatusResume(r, resp)
  \/ \E r \in net, resp \in ResultResponses : LoadEventResume(r, resp)
  \/ \E r \in net, resp \in StatusResponses : HandlerStatusResume(r, resp)
  \/ \E r \in net, resp \in ResultResponses : HandlerEventResume(r, resp)

\* The chat form alone: the user types anything, whitespace included, and
\* submits; the request fails at the network or is answered with plain text.
\* No timer tick: a cooldown, once started, goes on.
SubmitResponses ==
  {resp \in ChatResponses : resp.body = "reject" \/ (resp.body = "text" /\ ~resp.itin)}

NextSubmit ==
  \/ \E v \in Inputs : TypeMessage(v)
  \/ ChatSubmit
  \/ \E r \in net, resp \in SubmitResponses : ChatResume(r, resp)
  \/ \E r \in net, resp \in SubmitResponses : TextChatResume(r, resp)
  \/ \E r \in net, resp \in SubmitResponses : TemplateChatResume(r, resp)

\* One chat request at a time, answered with plain text or with HTTP 429, and
\* the timer: a cooldown starts only when none is running.
CooldownResponses ==
  {resp \in ChatResponses :
     \/ resp.body = "text" /\ ~resp.itin
     \/ resp.body = "fail" /\ resp.http = 429}

NextCooldown ==
  \/ \E v \in Texts : TypeMessage(v)
  \/ ChatSubmit /\ net = {}
  \/ \E r \in net, resp \in CooldownResponses : ChatResume(r, resp)
  \/ \E r \in net, resp \in CooldownResponses : TextChatResume(r, resp)
  \/ \E r \in net, resp \in CooldownResponses : TemplateChatResume(r, resp)
  \/ Tick

Next ==
  \/ NextChat
  \/ NextPlan
  \/ NextPreview
  \/ NextCalendar
  \/ NextSave
  \/ NextRefine
  \/ NextSession
  \/ NextReturn
  \/ NextSubmit
  \/ NextCooldown

Spec == Init /\ [][Next]_vars
SpecChat == Init /\ [][NextChat]_vars
SpecPlan == Init /\ [][NextPlan]_vars
SpecPreview == Init /\ [][NextPreview]_vars
SpecConfirm == Init /\ [][NextConfirm]_vars
SpecCalendar == Init /\ [][NextCalendar]_vars
SpecSave == Init /\ [][NextSave]_vars
SpecRefine == Init /\ [][NextRefine]_vars
SpecSession == Init /\ [][NextSession]_vars
SpecReturn == Init /\ [][NextReturn]_vars
SpecSubmit == Init /\ [][NextSubmit]_vars
SpecCooldown == Init /\ [][NextCooldown]_vars

\* ================================================================= claims

\* ---------------------------------------------------------------------- C1
\* C1: on a page showing one set of alternatives, once a selection of one of
\* its options has succeeded exactly one option of the set is visible, also
\* when select requests for two options of the set were in flight together.
VisibleIn(s) == {k \in DOMAIN sets[s] : sets[s][k].visible}

C1_ExactlyOneVisible ==
  (Len(sets) = 1 /\ \E k \in DOMAIN sets[1] : sets[1][k].chosen)
    => Cardinality(VisibleIn(1)) = 1

\* ---------------------------------------------------------------------- C2
\* C2: at most one set of alternatives is active for selection, that is, has
\* a visible option whose select button is enabled.
ActiveSets ==
  {s \in DOMAIN sets : \E k \in DOMAIN sets[s] : sets[s][k].visible /\ ~sets[s][k].btnDisabled}

C2_OneActiveSet == Cardinality(ActiveSets) <= 1

\* ---------------------------------------------------------------------- C3
\* C3: when an /api/chat request of the chat form completes with HTTP status
\* 429, with a JSON body or not, the handler appends the rate-limit message
\* (and so not the generic one) and disables the submit button with a timer
\* of the rate-limit cooldown.
C3_RateLimited ==
  [][\A r \in net, resp \in ChatResponses :
       (resp.http = 429 /\ ChatResume(r, resp)) =>
         /\ Last(chatMessages') = Node("error", <<"rate">>, NoRef)
         /\ submitButton'.disabled
         /\ Len(intervals') = Len(intervals) + 1
         /\ Last(intervals').timeLeft = RateLimitCooldown]_vars

\* ---------------------------------------------------------------------- C4
\* C4: once the status check of the load handler has reported authenticated:
\* true for a stored payload and the handler has gone on from it, exactly one
\* POST /api/calendar/event has been issued by the handler and session storage
\* holds no payload while the page is shown.
LoadWentOn == loadPc \in {"posting", "done", "threw", "redirected"}

C4_ExactlyOnePost ==
  LoadWentOn => (loadPosts = 1 /\ (location = "app" => pending = NoPending))

\* ---------------------------------------------------------------------- C5
\* C5: when the status check of the confirmSchedule click handler reports
\* authenticated: false, the handler stores the itinerary of its dialog and
\* the start date read at the click in session storage, redirects to
\* /api/calendar/auth, and issues no POST /api/calendar/event.
C5_UnauthenticatedRedirects ==
  [][\A r \in net :
       ConfirmStatusResume(r, "no") =>
         /\ pending' = [itinerary |-> r.content, startDate |-> r.date]
         /\ pending'.itinerary # "" /\ pending'.startDate \in Dates
         /\ location' = "auth"
         /\ {q \in net' : q.kind = "cevent"} \subseteq net]_vars

\* the confirm handler has stored the payload and redirected
C5_Witness ==
  /\ version \in {"part_001", "part_004"}
  /\ location = "auth"
  /\ pending.itinerary = "p1" /\ pending.startDate \in Dates
  /\ \A q \in net : q.kind # "cevent"

\* ---------------------------------------------------------------------- C6
\* C6: no step of the window load handler (or of handleScheduleConfirmation
\* called by it) puts a payload into session storage: after each of them the
\* storage holds none, so a further reload finds nothing to consume.
C6_PayloadConsumedOnce ==
  [][\A r \in net :
       /\ \A resp \in StatusResponses :
            (LoadStatusResume(r, resp) \/ HandlerStatusResume(r, resp))
              => pending' = NoPending
       /\ \A resp \in ResultResponses :
            (LoadEventResume(r, resp) \/ HandlerEventResume(r, resp))
              => pending' = NoPending]_vars

\* ---------------------------------------------------------------------- C7
\* C7: while the dialog is open and no preview request is in flight, the
\* events list is empty or shows the preview of the start date in the date
\* input.
C7_PreviewOfCurrentDate ==
  (modal.open /\ \A r \in net : r.kind # "preview")
    => \A i \in DOMAIN modal.events : modal.events[i].date = modal.date

\* ---------------------------------------------------------------------- C8
\* C8: when a successful preview response is rendered into the dialog on
\* screen, the event cards of the list are afterwards exactly the events of
\* that response, in response order: nothing of an earlier preview stays.
C8_PreviewReplaces ==
  [][\A r \in {q \in net : q.kind = "preview"} : \A resp \in PreviewResponses(r.date) :
       (resp.status = "success" /\ PreviewTargetOnScreen(r) /\ PreviewResume(r, resp)) =>
         LET IsCard(x) == x.kind = "card"
             cards == SelectSeq(modal'.events, IsCard)
         IN /\ Len(cards) = Len(resp.preview)
            /\ \A i \in DOMAIN cards :
                 /\ cards[i].day = resp.preview[i].day
                 /\ cards[i].n = resp.preview[i].n
                 /\ cards[i].date = resp.preview[i].date]_vars

\* a preview of two days has been rendered for the chosen date
C8_Witness ==
  /\ modal.open
  /\ modal.date = "d2"
  /\ Len(modal.events) >= 2
  /\ \A i \in DOMAIN modal.events : modal.events[i].date = "d2"
  /\ \E i, j \in DOMAIN modal.events :
       /\ modal.events[i].kind = "card" /\ modal.events[j].kind = "card"
       /\ modal.events[i].day # modal.events[j].day

ChatInFlight == {r \in net : r.kind = "chat"}

C10_OneChatInFlight == Cardinality(ChatInFlight) <= 1

\* --------------------------------------------------------------------- C11
\* C11: when a chat request succeeds with a plain text body, the loading
\* indicator of the request is replaced by one system message that is no error
\* message and shows that text.
C11_PlainTextShown ==
  [][\A r \in net, resp \in ChatResponses :
       (resp.body = "text"
        /\ (ChatResume(r, resp) \/ TextChatResume(r, resp) \/ TemplateChatResume(r, resp)))
       => chatMessages' = Append(RemoveLoading(chatMessages, r.id),
                                 Node("system", <<"response">>, NoRef))]_vars

\* --------------------------------------------------------------------- C12
\* C12: at most one /api/chat/select request is in flight per option, the
\* select button of the option is disabled while it is, and once the selection
\* of an option has succeeded its button stays disabled, so that no further
\* request is issued for it.
SelectsInFlight(s, k) == {r \in net : r.kind = "select" /\ r.s = s /\ r.k = k}

C12_SelectOnce ==
  \A o \in Options :
    IsOption(o[1], o[2]) =>
      /\ Cardinality(SelectsInFlight(o[1], o[2])) <= 1
      /\ SelectsInFlight(o[1], o[2]) # {} => sets[o[1]][o[2]].btnDisabled
      /\ sets[o[1]][o[2]].chosen =>
            sets[o[1]][o[2]].btnDisabled /\ SelectsInFlight(o[1], o[2]) = {}

\* --------------------------------------------------------------------- C13
\* C13: when a selection fails (the fetch rejects, the body is not JSON or the
\* status is not 'success'), the clicked select button is enabled again with
\* the label 'Select this option' and exactly one error message is appended to
\* the conversation.
C13_FailedSelectionResets ==
  [][\A r \in net, resp \in {"throw", "fail"} :
       SelectResume(r, resp) =>
         /\ ~sets'[r.s][r.k].btnDisabled
         /\ sets'[r.s][r.k].btnLabel = SelectLabel
         /\ chatMessages' = Append(chatMessages, Node("error", <<"select">>, NoRef))]_vars

\* a selection has failed: its error message is shown and the select button of
\* an option that was never selected can be clicked again
C13_Witness ==
  /\ \E i \in DOMAIN chatMessages : chatMessages[i] = Node("error", <<"select">>, NoRef)
  /\ \E o \in Options :
       /\ IsOption(o[1], o[2])
       /\ ~sets[o[1]][o[2]].chosen
       /\ ~sets[o[1]][o[2]].btnDisabled
       /\ sets[o[1]][o[2]].btnLabel = SelectLabel
       /\ SelectsInFlight(o[1], o[2]) = {}

\* --------------------------------------------------------------------- C14
\* C14: when the event-creation call of the confirm handler of the dialog on
\* screen fails, by a status other than 'success' or by a thrown error, the
\* confirm button is enabled again with the label 'Add to Calendar' and an
\* error message is appended; when it succeeds the dialog is closed and a
\* completion message is appended.
C14_EventOutcome ==
  [][\A r \in net, resp \in ResultResponses :
       (r.live /\ modal.open /\ ConfirmEventResume(r, resp)) =>
         IF resp = "success"
         THEN /\ ~modal'.open
              /\ chatMessages' = Append(chatMessages, Node("system", <<"added to calendar">>, NoRef))
         ELSE /\ modal'.open
              /\ ~modal'.btnDisabled
              /\ modal'.btnLabel = AddToCalendarLabel
              /\ Len(chatMessages') = Len(chatMessages) + 1
              /\ Last(chatMessages').t = "error"]_vars

\* --------------------------------------------------------------------- C15
\* C15: whenever no chat, refine or save request is in flight, the
\* conversation contains no loading indicator.
LoadingRequests == {r \in net : r.kind \in {"chat", "tchat", "hchat", "refine", "save"}}

C15_NoStrayLoading ==
  LoadingRequests = {} => \A i \in DOMAIN chatMessages : chatMessages[i].t # "loading"

\* --------------------------------------------------------------------- C16
\* C16: every request that fails, the preview call, the status check of the
\* schedule confirmation and the status check of the load handler included,
\* ends with an error message appended to the conversation.
C16_FailuresShown ==
  [][\A r \in net :
       (\/ PreviewResume(r, [status |-> "fail", preview |-> <<>>])
        \/ ConfirmStatusResume(r, "throw")
        \/ LoadStatusResume(r, "throw"))
       => /\ Len(chatMessages') = Len(chatMessages) + 1
          /\ Last(chatMessages').t = "error"]_vars

\* --------------------------------------------------------------------- C17
\* a step shows a scheduling dialog that was not on screen before it
DialogOpened ==
  /\ modal'.open /\ modal' # modal
  /\ [modal' EXCEPT !.beneath = <<>>] = OpenModal(modal'.itinerary)
  /\ Len(modal'.beneath) >= Len(modal.beneath)

C18_RefinePostsRevision ==
  [][\A o \in Options, c \in (Changes \cup PromptTexts) \ {""} :
       (RefineClick(o[1], o[2], c) \/ RefineButtonClick(o[1], o[2], c)) =>
         \E r \in net' \ net :
           /\ net' = net \cup {r}
           /\ r.kind \in {"refine", "send"}
           /\ r.txt = RevisionMessage(c, sets[o[1]][o[2]].content)]_vars

\* --------------------------------------------------------------------- C19
\* C19: a cooldown that has ended leaves the submit button enabled and showing
\* the label it had before any cooldown began: when no timer of disableSubmit
\* is running, the button is enabled with its original label.  This holds also
\* when a second cooldown was started before the first had expired.
C19_CooldownRestores ==
  intervals = <<>> => ~submitButton.disabled /\ submitButton.label = OriginalLabel

\* --------------------------------------------------------------------- C20
\* C20: when the save of a confirmed plan fails, the confirm button that was
\* clicked is enabled and labelled 'Confirm Plan', as before the click.
C20_ConfirmButtonRestored ==
  [][\A r \in net, resp \in {"throw", "fail"} :
       ConfirmButtonSaveResume(r, resp) =>
         sets'[r.s][r.k].confirmButtons[r.button] =
           NewConfirmButton(sets[r.s][r.k].confirmButtons[r.button].query)]_vars

\* --------------------------------------------------------------------- C21
\* the children of #chatMessages that are no loading indicators
IsMessage(n) == n.t # "loading"
Messages(cm) == SelectSeq(cm, IsMessage)

\* C21: the conversation is append-only: in every step of a page session the
\* messages shown before the step are, in the same order, the first messages
\* shown after it; only loading indicators are removed.
C21_AppendOnly ==
  [][LET before == Messages(chatMessages)
         after == Messages(chatMessages')
     IN /\ Len(before) <= Len(after)
        /\ SubSeq(after, 1, Len(before)) = before]_vars

\* --------------------------------------------------------------------- C22
\* C22: refine and confirm controls exist only under an option that is selected
\* (or whose selection is under way), and such an option has exactly one
\* group of them, with one confirm control, after any sequence of select
\* clicks, a click after a failed selection included.
ControlsOf(o) ==
  IF version = "part_002" THEN Len(o.confirmButtons) ELSE o.controls

C22_OneControlGroup ==
  \A o \in Options :
    IsOption(o[1], o[2]) =>
      LET opt == sets[o[1]][o[2]]
      IN /\ ControlsOf(opt) <= 1
         /\ ControlsOf(opt) > 0 => opt.chosen \/ SelectsInFlight(o[1], o[2]) # {}

\* --------------------------------------------------------------------- C23
\* the requests to /api/chat, /api/chat/select, /api/preferences and
\* /api/itinerary/save
SessionRequests ==
  {r \in net : r.kind \in {"chat", "tchat", "hchat", "send", "refine", "select",
                            "save", "bsave", "prefs"}}

\* C23: every request to /api/chat, /api/chat/select, /api/preferences and
\* /api/itinerary/save carries a user_id, and it is the user id of the page
\* session that sent it, the same for all of them and a new one after a reload.
C23_SessionUserId ==
  \A r \in SessionRequests : r.user_id # NoUserId /\ r.user_id = userId

\* --------------------------------------------------------------------- C24
\* the responses of /api/chat that carry at least one alternative
AltsResponses == {resp \in ChatResponses : resp.body = "alts" /\ resp.n > 0}

\* the options rendered last show the alternatives of resp, one option each:
\* with a select button, as raw text where rendering throws and as markup
\* where it does not
RendersAll(st, resp) ==
  /\ st # <<>>
  /\ LET new == st[Len(st)]
     IN /\ Len(new) = resp.n
        /\ \A k \in 1..resp.n :
             /\ new[k].content = AlternativesOf(resp)[k].content
             /\ new[k].shown = IF k \in resp.bad THEN "raw" ELSE "markup"
             /\ new[k].btnLabel # ""

\* C24: when a response with alternatives is displayed, every alternative
\* becomes an option with its select button, shown as markup or, where
\* rendering throws, as its raw text; no alternative is left out.
C24_EveryAlternativeRendered ==
  [][\A r \in net, resp \in AltsResponses :
       (ChatResume(r, resp) \/ TemplateChatResume(r, resp)) => RendersAll(sets', resp)]_vars

\* --------------------------------------------------------------------- C25
\* a rate-limit cooldown is running: only a cooldown started with
\* RateLimitCooldown seconds has more than SuccessCooldown seconds left
RateLimitRunning ==
  \E i \in DOMAIN intervals : intervals[i].timeLeft > SuccessCooldown

\* C25: while a rate-limit cooldown is running the submit button is disabled,
\* whatever other cooldown has started or expired in the meantime.
C25_RateLimitHoldsButton ==
  RateLimitRunning => submitButton.disabled

\* --------------------------------------------------------------------- C26
\* txt is the text of a user message that stands in the conversation before
\* the options of set s: the message that produced a set is one of these
AskedBefore(txt, s) ==
  \E i, j \in DOMAIN chatMessages :
    /\ i < j
    /\ chatMessages[i].t = "user" /\ chatMessages[i].txt = txt
    /\ chatMessages[j].t = "options" /\ chatMessages[j].ref = s

\* C26: the original_query of a select or save request is the text of the
\* user message that produced the set of the selected option, a message sent
\* before the set was displayed.
C26_OriginalQuery ==
  \A r \in net : r.kind \in {"select", "save", "bsave"} => AskedBefore(r.q, r.s)

\* --------------------------------------------------------------------- C27
\* no selection of an option of set s has succeeded
NoneChosen(s) == \A k \in DOMAIN sets[s] : ~sets[s][k].chosen

\* C27: when a selection fails (the request is rejected or answered with a
\* status other than 'success') and no other selection of the set has
\* succeeded, every option of the set is visible afterwards and none carries
\* a refine or confirm control.
C27_FailedSelectionLeavesSet ==
  [][\A r \in net, resp \in {"throw", "fail"} :
       SelectResume(r, resp) /\ NoneChosen(r.s) =>
         \A k \in DOMAIN sets'[r.s] :
           sets'[r.s][k].visible /\ ControlsOf(sets'[r.s][k]) = 0 /\ sets'[r.s][k].controls = 0]_vars

\* --------------------------------------------------------------------- C28
\* the requests that POST /api/calendar/event
EventRequests(rs) == {r \in rs : r.kind \in {"cevent", "levent", "hevent", "oevent"}}

\* the POSTs of /api/calendar/event this step issues
EventsIssued ==
  {r \in EventRequests(net') : \A e \in EventRequests(net) : e.id # r.id}

\* this step is the part of a handler that runs after its check of
\* /api/calendar/status was answered with authenticated: true
AuthenticatedStep ==
  \E r \in net :
    \/ ConfirmStatusResume(r, "yes")
    \/ LoadStatusResume(r, "yes")
    \/ HandlerStatusResume(r, "yes")
    \/ CalendarResume(r, "yes")
    \/ ConfirmButtonStatusResume(r, "yes")

\* this step puts a new scheduling dialog on the screen
DialogAppears == DialogOpened

\* C28: a POST of /api/calendar/event is issued only after the status check
\* of its flow was answered with authenticated: true: in the part of the
\* handler that follows that answer, or by the confirm button of a dialog of
\* chat.js, which appears only upon such an answer.
C28_EventAfterAuthenticated ==
  [][/\ EventsIssued # {} =>
          AuthenticatedStep \/ (version \in ChatJsVersions /\ ConfirmScheduleClick)
     /\ version \in ChatJsVersions /\ DialogAppears => AuthenticatedStep]_vars

\* --------------------------------------------------------------------- C29
\* the event POSTs of the confirm button of the dialog on screen
DialogEvents == {r \in net : r.kind = "cevent" /\ r.live}

\* C29: the confirm button of one scheduling dialog has at most one POST of
\* /api/calendar/event in flight at any time.
C29_OneEventPerDialog == Cardinality(DialogEvents) <= 1

\* --------------------------------------------------------------------- C30
\* the POSTs of /api/itinerary/save in flight for option k of set s
SavesInFlight(s, k) ==
  {r \in net : r.kind \in {"save", "bsave"} /\ r.s = s /\ r.k = k}

\* C30: for one plan at most one POST of /api/itinerary/save is in flight.
C30_OneSavePerPlan ==
  \A o \in Options : Cardinality(SavesInFlight(o[1], o[2])) <= 1

\* --------------------------------------------------------------------- C31
\* the scheduling dialogs in the document
ModalsInDocument == IF modal.open THEN 1 + Len(modal.beneath) ELSE 0

\* C31: at most one scheduling dialog exists in the document at any time.
C31_OneModal == ModalsInDocument <= 1

\* --------------------------------------------------------------------- C32
\* the requests of the window load handler and of the handleScheduleConfirmation
\* it calls
LoadFlow(rs) == {r \in rs : r.kind \in {"lstatus", "levent", "hstatus", "hevent"}}

\* C32: store then load is a round trip.  The confirm handler that is told
\* authenticated: false stores the itinerary and the start date it holds; the
\* load handler takes its itinerary and start date from the stored payload;
\* and every request of the load handler, its event POST included, carries
\* the itinerary and start date the handler took from the payload.
C32_StoreLoadRoundTrip ==
  [][/\ \A r \in net :
          (ConfirmStatusResume(r, "no") \/ HandlerStatusResume(r, "no")) =>
            /\ pending'.itinerary = r.content /\ pending'.startDate = r.date
            /\ r.content # "" /\ r.date \in Dates
     /\ \A e \in LoadFlow(net') :
          \/ /\ PageLoad
             /\ e.content = pending.itinerary /\ e.date = pending.startDate
          \/ \E r \in LoadFlow(net) :
               r.id = e.id /\ e.content = r.content /\ e.date = r.date]_vars

\* after the return from the redirect the load handler posts the event for
\* the itinerary and a start date of the dialog
C32_Witness ==
  /\ userId > 1
  /\ \E e \in net : e.kind \in {"levent", "hevent"} /\ e.content = "p1" /\ e.date \in Dates

\* --------------------------------------------------------------------- C33
\* the status checks of the calendar button of option k of set s in flight
CalendarChecks(s, k) == {r \in net : r.kind = "calstatus" /\ r.s = s /\ r.k = k}

\* C33: on the page, with no scheduling dialog open and the status check of
\* its click handler over, the 'Add to Calendar' button of an option is not
\* disabled: the user can open the scheduling dialog again.
C33_CalendarButtonUsable ==
  \A o \in Options :
    (/\ IsOption(o[1], o[2])
     /\ location = "app" /\ ~modal.open
     /\ CalendarChecks(o[1], o[2]) = {})
      => sets[o[1]][o[2]].calButton # "disabled"

\* --------------------------------------------------------------------- C34
\* C34: a submission of the chat form with an empty or whitespace-only
\* message changes nothing: the conversation, the requests in flight, the
\* submit button, its timers and the message box are as before.
C34_EmptySubmitNoEffect ==
  [][(ChatSubmit /\ trim(messageInput) = "") =>
       UNCHANGED <<chatMessages, net, submitButton, intervals, messageInput, sets>>]_vars

\* the form can be submitted with whitespace in the message box, after an
\* earlier message was sent
C34_Witness ==
  /\ messageInput = " "
  /\ HasChatForm /\ PageInteractive /\ ~submitButton.disabled
  /\ chatMessages # <<>>

\* --------------------------------------------------------------------- C35
\* the events of a preview that start a maximal run of one day_number
RunStarts(preview) ==
  {i \in DOMAIN preview : i = 1 \/ preview[i].day # preview[i-1].day}

IsCard(e) == e.kind = "card"
DayHeaderAt(list) == {j \in DOMAIN list : list[j].kind = "day"}

\* list shows preview grouped by day
GroupedByDay(list, preview) ==
  /\ SelectSeq(list, IsCard) = [i \in DOMAIN preview |-> EventCard(preview[i])]
  /\ Cardinality(DayHeaderAt(list)) = Cardinality(RunStarts(preview))
  /\ \A j \in DayHeaderAt(list) :
       /\ j < Len(list)
       /\ IsCard(list[j+1])
       /\ list[j+1].n \in RunStarts(preview)
       /\ list[j].day = list[j+1].day

Cooldowns == {SuccessCooldown, RateLimitCooldown}

\* a cooldown starts while no other is running: the button is disabled and
\* keeps its label, the countdown stands at n
StartsAlone ==
  (intervals = <<>> /\ intervals' # <<>>) =>
    /\ Len(intervals') = 1
    /\ intervals'[1].timeLeft \in Cooldowns
    /\ intervals'[1].originalText = submitButton.label
    /\ submitButton'.disabled
    /\ submitButton'.label = submitButton.label

\* a tick of the only cooldown, the button showing `shown` after it: while
\* the countdown stands above 0 the button stays disabled and the countdown
\* goes down by one; the tick that finds it at 0 enables the button and ends
\* the timer, so that no tick follows
TickOfOne(shown(_)) ==
  (Tick /\ Len(intervals) = 1) =>
    LET t == intervals[1].timeLeft
    IN /\ submitButton.disabled
       /\ t >= 0
       /\ submitButton'.label = shown(t)
       /\ IF t > 0
          THEN /\ submitButton'.disabled
               /\ intervals' = <<[intervals[1] EXCEPT !.timeLeft = t - 1]>>
          ELSE /\ ~submitButton'.disabled
               /\ intervals' = <<>>

ShownToZero(t) == t
ShownToOne(t) == IF t > 0 THEN t ELSE OriginalLabel

====
